---- MODULE Spec2Model ----
(***************************************************************************)
(* Model of address_converter/converter.py: conversion between EVM and     *)
(* TRON account addresses.                                                 *)
(*                                                                         *)
(* A Python str is a sequence of one-character strings; a Python bytes is  *)
(* a sequence of numbers in 0..255.  A Python value is a record [t, s, b]: *)
(* t is its type ("str", "bytes", "bool", "none", "int"), s its characters *)
(* or bytes, b its truth value.  The outcome of a call is a record that    *)
(* says whether the call returned (and which value) or raised (and which   *)
(* exception, with which message).                                         *)
(***************************************************************************)
EXTENDS Integers, Sequences, FiniteSets, TLC

(***************************************************************************)
(* Bounds of the model.                                                    *)
(***************************************************************************)
\* Most whitespace characters around an input text (before and after it
\* together).
MaxPad == 1

(***************************************************************************)
(* Characters.                                                             *)
(***************************************************************************)
HexLower == <<"0","1","2","3","4","5","6","7","8","9","a","b","c","d","e","f">>
UpperCase == <<"A","B","C","D","E","F","G","H","I","J","K","L","M",
               "N","O","P","Q","R","S","T","U","V","W","X","Y","Z">>
LowerCase == <<"a","b","c","d","e","f","g","h","i","j","k","l","m",
               "n","o","p","q","r","s","t","u","v","w","x","y","z">>
\* Characters str.isspace() and str.strip() treat as whitespace.
Whitespace == {" ", "\t"}
\* A decimal digit outside ASCII (ARABIC-INDIC DIGIT THREE): int() reads it
\* as the digit 3, str.lower() leaves it alone, bytes.fromhex() rejects it.
UnicodeDigit == "U+0663"

Range(s) == {s[i] : i \in DOMAIN s}
IndexOf(c, s) == CHOOSE i \in DOMAIN s : s[i] = c

\* str.lower() on one character
LowerChar(c) == IF c \in Range(UpperCase) THEN LowerCase[IndexOf(c, UpperCase)] ELSE c
UpperChar(c) == IF c \in Range(LowerCase) THEN UpperCase[IndexOf(c, LowerCase)] ELSE c

(***************************************************************************)
(* Python str operations used by the converter.                            *)
(***************************************************************************)
Lower(s) == [i \in DOMAIN s |-> LowerChar(s[i])]
Upper(s) == [i \in DOMAIN s |-> UpperChar(s[i])]

\* s[i:] with i counted from 0, as Python does
DropFirst(s, k) == IF k >= Len(s) THEN <<>> ELSE SubSeq(s, k + 1, Len(s))

StartsWith(s, p) == Len(s) >= Len(p) /\ SubSeq(s, 1, Len(p)) = p

\* str.replace("0x", ""): occurrences are found left to right, without
\* overlap, in the original text; what the removals bring together is not
\* searched again.
RECURSIVE RemoveFrom(_, _)
RemoveFrom(s, i) ==
  IF i > Len(s) THEN <<>>
  ELSE IF i < Len(s) /\ s[i] = "0" /\ s[i + 1] = "x" THEN RemoveFrom(s, i + 2)
  ELSE <<s[i]>> \o RemoveFrom(s, i + 1)
Remove0x(s) == RemoveFrom(s, 1)

RECURSIVE LStrip(_)
LStrip(s) == IF s # <<>> /\ Head(s) \in Whitespace THEN LStrip(Tail(s)) ELSE s
RECURSIVE RStrip(_)
RStrip(s) ==
  IF s # <<>> /\ s[Len(s)] \in Whitespace THEN RStrip(SubSeq(s, 1, Len(s) - 1)) ELSE s
Strip(s) == RStrip(LStrip(s))

\* str.isspace(): non-empty and all whitespace
IsSpace(s) == s # <<>> /\ \A i \in DOMAIN s : s[i] \in Whitespace

\* address.lower().replace("0x", "").strip()
Clean(s) == Strip(Remove0x(Lower(s)))

(***************************************************************************)
(* int(text, 16): whether Python accepts the text.  Surrounding whitespace *)
(* is skipped, then an optional sign, then an optional 0x/0X prefix (which *)
(* one underscore may follow), then digits, with single underscores        *)
(* allowed between digits.  A digit is a hexadecimal digit in either case  *)
(* or any Unicode decimal digit.                                           *)
(***************************************************************************)
IsIntDigit16(c) == c \in Range(HexLower) \/ c \in {"A","B","C","D","E","F"} \/ c = UnicodeDigit

\* digits with single underscores between them, from position i on;
\* prevDigit says that the character before position i was a digit
RECURSIVE DigitsOk(_, _, _)
DigitsOk(s, i, prevDigit) ==
  IF i > Len(s) THEN prevDigit
  ELSE IF IsIntDigit16(s[i]) THEN DigitsOk(s, i + 1, TRUE)
  ELSE IF s[i] = "_" /\ prevDigit THEN DigitsOk(s, i + 1, FALSE)
  ELSE FALSE

IntBase16Accepts(text) ==
  LET s == Strip(text)
      afterSign == IF s # <<>> /\ s[1] \in {"+", "-"} THEN Tail(s) ELSE s
      hasPrefix == Len(afterSign) >= 2 /\ afterSign[1] = "0" /\ afterSign[2] \in {"x", "X"}
      afterPrefix == IF hasPrefix THEN DropFirst(afterSign, 2) ELSE afterSign
      body == IF hasPrefix /\ afterPrefix # <<>> /\ afterPrefix[1] = "_"
              THEN Tail(afterPrefix) ELSE afterPrefix
  IN  DigitsOk(body, 1, FALSE)


(***************************************************************************)
(* Python values and the outcomes of a call.                               *)
(***************************************************************************)
Str(s) == [t |-> "str", s |-> s, b |-> FALSE]
Bytes(s) == [t |-> "bytes", s |-> s, b |-> FALSE]
Bool(b) == [t |-> "bool", s |-> <<>>, b |-> b]
NoneValue == [t |-> "none", s |-> <<>>, b |-> FALSE]
IntValue == [t |-> "int", s |-> <<>>, b |-> FALSE]
\* isinstance(v, str)
IsStr(v) == v.t = "str"

Return(v) == [kind |-> "return", val |-> v, exc |-> "", msg |-> "", actual |-> 0, expected |-> 0]
Raise(e, m) ==
  [kind |-> "raise", val |-> NoneValue, exc |-> e, msg |-> m, actual |-> 0, expected |-> 0]
\* f"Invalid EVM address length: {len(norm_address)}, expected 40"
RaiseLength(n, want) ==
  [kind |-> "raise", val |-> NoneValue, exc |-> "ValueError",
   msg |-> "Invalid EVM address length", actual |-> n, expected |-> want]

Returned(o) == o.kind = "return"
Raised(o) == o.kind = "raise"

\* number of hexadecimal characters of an EVM address
EvmHexLen == 40
\* number of hexadecimal characters of a TRON address in hex format
TronHexLen == 42

(***************************************************************************)
(* normalize_evm_address                                                   *)
(***************************************************************************)
normalize_evm_address(evm_address) ==
  IF ~IsStr(evm_address) THEN Raise("ValueError", "Address must be a string")
  ELSE IF evm_address.s = <<>> \/ IsSpace(evm_address.s) THEN Raise("ValueError", "Empty address")
  ELSE LET norm_address == Clean(evm_address.s)
       IN  IF ~IntBase16Accepts(norm_address)
             THEN Raise("ValueError", "Invalid hex characters in EVM address")
           ELSE IF Len(norm_address) # EvmHexLen
             THEN RaiseLength(Len(norm_address), EvmHexLen)
           ELSE Return(Str(norm_address))

(***************************************************************************)
(* validate_tron_hex_address.  Only the ValueError of int() is caught.     *)
(***************************************************************************)
validate_tron_hex_address(address) ==
  IF ~IsStr(address) THEN Return(Bool(FALSE))
  ELSE LET norm_address == Clean(address.s)
       IN  IF ~StartsWith(norm_address, <<"4", "1">>) THEN Return(Bool(FALSE))
           ELSE IF Len(norm_address) # TronHexLen THEN Return(Bool(FALSE))
           ELSE IF IntBase16Accepts(norm_address) THEN Return(Bool(TRUE))
           ELSE Return(Bool(FALSE))

(***************************************************************************)
(* The Base58Check codec of the base58 package (b58encode_check and        *)
(* b58decode_check, imported by the converter).  The Base58 conversion is  *)
(* done on the digits, as the package does it: encoding by repeated        *)
(* division by 58, decoding by multiplying by 58 and adding.  The checksum *)
(* of the package is the first four bytes of a double SHA-256; Checksum    *)
(* stands for it as a fixed function from bytes to four bytes.             *)
(***************************************************************************)
Base58Alphabet ==
  <<"1","2","3","4","5","6","7","8","9",
    "A","B","C","D","E","F","G","H","J","K","L","M","N","P","Q","R","S","T","U","V","W","X","Y","Z",
    "a","b","c","d","e","f","g","h","i","j","k","m","n","o","p","q","r","s","t","u","v","w","x","y","z">>

\* the version byte 0x41 of a TRON address
VersionByte == 65
\* bytes of a decoded TRON address: the version byte and the 20-byte payload
TronByteLen == 21

RECURSIVE Mix(_, _, _)
Mix(v, i, h) == IF i > Len(v) THEN h ELSE Mix(v, i + 1, (h * 31 + v[i] + i) % 65536)
Checksum(v) ==
  LET h == Mix(v, 1, 7)
      g == Mix(v, 1, h)
  IN  <<g % 256, g \div 256, (g * 7 + h) % 256, (h \div 256 + g * 13) % 256>>

RECURSIVE LeadingCount(_, _)
LeadingCount(s, c) == IF s # <<>> /\ Head(s) = c THEN 1 + LeadingCount(Tail(s), c) ELSE 0

Repeat(c, n) == [i \in 1..n |-> c]

\* one long division of the number with digits num (most significant first,
\* in base 256) by 58: the quotient, without leading zeros, and the remainder
RECURSIVE LongDiv(_, _, _, _)
LongDiv(num, i, rem, q) ==
  IF i > Len(num) THEN [q |-> q, r |-> rem]
  ELSE LET cur == rem * 256 + num[i]
       IN  LongDiv(num, i + 1, cur % 58,
                   IF q = <<>> /\ cur \div 58 = 0 THEN q ELSE Append(q, cur \div 58))

\* b58encode_int: the Base58 digits of a number, most significant first
RECURSIVE b58encode_int(_)
b58encode_int(num) ==
  IF num = <<>> THEN <<>>
  ELSE LET d == LongDiv(num, 1, 0, <<>>)
       IN  Append(b58encode_int(d.q), Base58Alphabet[d.r + 1])

\* b58encode: each leading zero byte becomes a "1"
b58encode(v) ==
  LET pad == LeadingCount(v, 0)
  IN  Repeat("1", pad) \o b58encode_int(DropFirst(v, pad))

b58encode_check(v) == b58encode(v \o Checksum(v))

\* num * 58 + carry, on the bytes of num (most significant first)
RECURSIVE MulAdd(_, _)
MulAdd(num, carry) ==
  IF num = <<>> THEN (IF carry = 0 THEN <<>> ELSE <<carry>>)
  ELSE LET cur == num[Len(num)] * 58 + carry
       IN  Append(MulAdd(SubSeq(num, 1, Len(num) - 1), cur \div 256), cur % 256)

\* b58decode_int: decimal = decimal * 58 + map[char] for each character
RECURSIVE b58decode_int(_, _, _)
b58decode_int(v, i, acc) ==
  IF i > Len(v) THEN acc
  ELSE b58decode_int(v, i + 1, MulAdd(acc, IndexOf(v[i], Base58Alphabet) - 1))

\* b58decode: trailing whitespace is dropped; a character outside the
\* alphabet raises ValueError; each leading "1" is a zero byte
b58decode(text) ==
  LET v == RStrip(text)
      pad == LeadingCount(v, "1")
  IN  IF \E i \in DOMAIN v : v[i] \notin Range(Base58Alphabet)
        THEN Raise("ValueError", "Invalid character")
      ELSE Return(Bytes(Repeat(0, pad) \o b58decode_int(DropFirst(v, pad), 1, <<>>)))

\* b58decode_check: result[:-4] is the data and result[-4:] the checksum
b58decode_check(text) ==
  LET d == b58decode(text)
  IN  IF Raised(d) THEN d
      ELSE LET n == Len(d.val.s)
               data == IF n <= 4 THEN <<>> ELSE SubSeq(d.val.s, 1, n - 4)
               check == IF n <= 4 THEN d.val.s ELSE SubSeq(d.val.s, n - 3, n)
           IN  IF check # Checksum(data) THEN Raise("ValueError", "Invalid checksum")
               ELSE Return(Bytes(data))

(***************************************************************************)
(* bytes.fromhex and bytes.hex.  bytes.fromhex raises ValueError unless    *)
(* the text is pairs of ASCII hexadecimal digits (the whitespace it skips  *)
(* between pairs cannot occur in the text evm_to_tron hands it).           *)
(***************************************************************************)
IsAsciiHex(c) == LowerChar(c) \in Range(HexLower)
FromHexAccepts(s) == Len(s) % 2 = 0 /\ \A i \in DOMAIN s : IsAsciiHex(s[i])
HexVal(c) == IndexOf(LowerChar(c), HexLower) - 1
BytesFromHex(s) == [i \in 1..(Len(s) \div 2) |-> 16 * HexVal(s[2 * i - 1]) + HexVal(s[2 * i])]
BytesHex(b) ==
  [i \in 1..(2 * Len(b)) |->
     IF i % 2 = 1 THEN HexLower[(b[(i + 1) \div 2] \div 16) + 1]
     ELSE HexLower[(b[i \div 2] % 16) + 1]]


(***************************************************************************)
(* validate_tron_base58_address.  Every exception of the decoder is        *)
(* caught.                                                                 *)
(***************************************************************************)
validate_tron_base58_address(address) ==
  IF ~IsStr(address) THEN Return(Bool(FALSE))
  ELSE IF ~StartsWith(address.s, <<"T">>) THEN Return(Bool(FALSE))
  ELSE LET decoded == b58decode_check(address.s)
       IN  IF Raised(decoded) THEN Return(Bool(FALSE))
           ELSE Return(Bool(Len(decoded.val.s) = TronByteLen /\ decoded.val.s[1] = VersionByte))

(***************************************************************************)
(* evm_to_tron.  The output format is checked first.                       *)
(***************************************************************************)
FormatBase58 == Str(<<"b", "a", "s", "e", "5", "8">>)
FormatHex == Str(<<"h", "e", "x">>)

\* evm_to_tron with the two checks in the other order
evm_to_tron_address_first(evm_address, output_format) ==
  LET normalized == normalize_evm_address(evm_address)
  IN  IF Raised(normalized) THEN normalized
      ELSE IF output_format \notin {FormatBase58, FormatHex}
        THEN Raise("ValueError", "output_format must be 'base58' or 'hex'")
      ELSE LET tron_hex == <<"4", "1">> \o normalized.val.s
           IN  IF output_format = FormatHex THEN Return(Str(tron_hex))
               ELSE IF ~FromHexAccepts(tron_hex)
                 THEN Raise("ValueError", "Failed to convert to Base58Check format")
               ELSE Return(Str(b58encode_check(BytesFromHex(tron_hex))))

evm_to_tron(evm_address, output_format) ==
  IF output_format \notin {FormatBase58, FormatHex}
    THEN Raise("ValueError", "output_format must be 'base58' or 'hex'")
  ELSE LET normalized == normalize_evm_address(evm_address)
       IN  IF Raised(normalized) THEN normalized
           ELSE LET tron_hex == <<"4", "1">> \o normalized.val.s
                IN  IF output_format = FormatHex THEN Return(Str(tron_hex))
                    ELSE IF ~FromHexAccepts(tron_hex)
                      THEN Raise("ValueError", "Failed to convert to Base58Check format")
                    ELSE Return(Str(b58encode_check(BytesFromHex(tron_hex))))

(***************************************************************************)
(* tron_to_evm.  A text starting with "T" is taken as Base58Check, any     *)
(* other text as hex.                                                      *)
(***************************************************************************)
\* evm_address = tron_hex[2:], without the two characters of the version byte
StripVersionKept(tron_hex) == tron_hex
StripVersion(tron_hex) == DropFirst(tron_hex, 2)

\* f"0x{evm_address}" if add_prefix else evm_address
WithPrefix(evm_address, add_prefix) ==
  Return(Str(IF add_prefix.b THEN <<"0", "x">> \o evm_address ELSE evm_address))

tron_to_evm(tron_address, add_prefix) ==
  IF ~IsStr(tron_address) THEN Raise("ValueError", "Address must be a string")
  ELSE IF tron_address.s = <<>> \/ IsSpace(tron_address.s) THEN Raise("ValueError", "Empty address")
  ELSE IF StartsWith(tron_address.s, <<"T">>)
    THEN LET valid == validate_tron_base58_address(tron_address)
         IN  IF Raised(valid) THEN valid
             ELSE IF ~valid.val.b THEN Raise("ValueError", "Invalid TRON Base58Check address")
             ELSE LET address_bytes == b58decode_check(tron_address.s)
                  IN  IF Raised(address_bytes)
                        THEN Raise("ValueError", "Failed to decode Base58Check address")
                      ELSE WithPrefix(StripVersion(BytesHex(address_bytes.val.s)), add_prefix)
  ELSE LET valid == validate_tron_hex_address(tron_address)
       IN  IF Raised(valid) THEN valid
           ELSE IF ~valid.val.b THEN Raise("ValueError", "Invalid TRON hex address")
           ELSE WithPrefix(StripVersion(Clean(tron_address.s)), add_prefix)

(***************************************************************************)
(* get_address_type.  The argument is trimmed first, and the checks that   *)
(* follow see the trimmed text.  A ValueError raised inside the try block  *)
(* is caught and gives None; any other exception leaves the function.      *)
(***************************************************************************)
TypeEvm == Str(<<"e", "v", "m">>)
TypeTronBase58 == Str(<<"t", "r", "o", "n", "_", "b", "a", "s", "e", "5", "8">>)
TypeTronHex == Str(<<"t", "r", "o", "n", "_", "h", "e", "x">>)

\* a try block without its except clause
CatchNothing(o) == o
CatchValueError(o) == IF Raised(o) /\ o.exc = "ValueError" THEN Return(NoneValue) ELSE o

\* the body of the try block with the Base58Check validator given the
\* lower-cased norm_address
TypeOfNormalized(address) ==
  LET norm_address == Clean(address)
      isHex == IF StartsWith(norm_address, <<"4", "1">>) /\ Len(norm_address) = TronHexLen
               THEN validate_tron_hex_address(Str(norm_address)) ELSE Return(Bool(FALSE))
      isBase58 == validate_tron_base58_address(Str(norm_address))
      isEvm == normalize_evm_address(Str(address))
  IN  IF Raised(isHex) THEN isHex
      ELSE IF isHex.val.b THEN Return(TypeTronHex)
      ELSE IF Raised(isBase58) THEN isBase58
      ELSE IF isBase58.val.b THEN Return(TypeTronBase58)
      ELSE IF Len(norm_address) # EvmHexLen THEN Return(NoneValue)
      ELSE IF Raised(isEvm) THEN isEvm
      ELSE Return(TypeEvm)

\* the body of the try block, on the trimmed argument
TypeOfTrimmed(address) ==
  LET norm_address == Clean(address)
      isHex == IF StartsWith(norm_address, <<"4", "1">>) /\ Len(norm_address) = TronHexLen
               THEN validate_tron_hex_address(Str(norm_address)) ELSE Return(Bool(FALSE))
      isBase58 == validate_tron_base58_address(Str(address))
      isEvm == normalize_evm_address(Str(address))
  IN  IF Raised(isHex) THEN isHex
      ELSE IF isHex.val.b THEN Return(TypeTronHex)
      ELSE IF Raised(isBase58) THEN isBase58
      ELSE IF isBase58.val.b THEN Return(TypeTronBase58)
      ELSE IF Len(norm_address) # EvmHexLen THEN Return(NoneValue)
      ELSE IF Raised(isEvm) THEN isEvm
      ELSE Return(TypeEvm)

get_address_type(address) ==
  IF ~IsStr(address) THEN Return(NoneValue)
  ELSE IF Strip(address.s) = <<>> THEN Return(NoneValue)
  ELSE CatchValueError(TypeOfTrimmed(Strip(address.s)))

(***************************************************************************)
(* The inputs.  A caller passes either a value that is not a str, or a     *)
(* text.  The texts are built the way addresses are written: whitespace, a *)
(* head (nothing, a 0x prefix, a version byte, a sign, ...), a run of      *)
(* hexadecimal digits in one letter case, a tail, whitespace; or they are  *)
(* Base58Check encodings, intact or damaged.                               *)
(***************************************************************************)
\* the digit patterns the texts are filled with
Seeds == {1, 2}

\* n hexadecimal digits that vary along the text
Digits(n, seed) == [i \in 1..n |-> HexLower[((i * (2 * seed + 1) + 5 * seed) % 16) + 1]]

Heads ==
  { <<>>, <<"0","x">>, <<"0","X">>, <<"0","0","x","x">>, <<"+">>, <<"-">>, <<"_">>,
    <<"1","_">>, <<UnicodeDigit>>, <<"g">>, <<"T">>,
    <<"4","1">>, <<"0","x","4","1">>, <<"4","1","0","x">>, <<"4","1","1","_">>,
    <<"4","1","0","0","x","x">>,
    <<"x">>, <<"0","x","0","x">>, <<"+","0","x">>, <<"0","0","x","x","_">> }
Tails == { <<>>, <<"g">>, <<"0","x">>, <<"_">> }
DigitCounts == {0, 1} \cup ((EvmHexLen - 3)..TronHexLen)

Pads == {p \in (0..MaxPad) \X (0..MaxPad) : p[1] + p[2] <= MaxPad}
Padded(p, s) == Repeat(" ", p[1]) \o s \o Repeat("\t", p[2])

HexTexts ==
  { Padded(p, h \o (IF up THEN Upper(Digits(n, 2)) ELSE Digits(n, 1)) \o t) :
      p \in Pads, h \in Heads, n \in DigitCounts, up \in BOOLEAN, t \in Tails }

\* the 20 bytes of an address
Payload(seed) == BytesFromHex(Digits(EvmHexLen, seed))
\* encodings of a TRON address, of an address of another version, and of a
\* TRON address one byte short
Encoded ==
  { b58encode_check(<<v>> \o Payload(seed)) : v \in {VersionByte, VersionByte + 1}, seed \in Seeds }
  \cup { b58encode_check(<<VersionByte>> \o SubSeq(Payload(seed), 1, 19)) : seed \in Seeds }
Damaged(e) ==
  { e,
    SubSeq(e, 1, Len(e) - 1),
    [e EXCEPT ![Len(e)] = IF e[Len(e)] = "2" THEN "3" ELSE "2"],
    [e EXCEPT ![2] = "0"],
    Lower(e) }
Base58Texts == { Padded(p, d) : p \in Pads, d \in UNION { Damaged(e) : e \in Encoded } }

Inputs == {NoneValue, IntValue} \cup { Str(s) : s \in HexTexts \cup Base58Texts }

\* values a caller may pass as output_format
Formats == {FormatBase58, FormatHex, Str(<<"x", "m", "l">>), NoneValue}

(***************************************************************************)
(* The state: the argument of a call, the function called on it with its   *)
(* option and outcome, and the function called next, on that outcome or on *)
(* the same argument, with its option and outcome.                         *)
(***************************************************************************)
VARIABLES address, call, option, result, follow, followOption, back

vars == <<address, call, option, result, follow, followOption, back>>

NoCall ==
  [kind |-> "none", val |-> NoneValue, exc |-> "", msg |-> "", actual |-> 0, expected |-> 0]

Init ==
  /\ address \in Inputs
  /\ call = "none"
  /\ option = NoneValue
  /\ result = NoCall
  /\ follow = "none"
  /\ followOption = NoneValue
  /\ back = NoCall

Called(name, opt, outcome) ==
  /\ call' = name
  /\ option' = opt
  /\ result' = outcome
  /\ UNCHANGED <<address, follow, followOption, back>>

CalledNext(name, opt, outcome) ==
  /\ follow' = name
  /\ followOption' = opt
  /\ back' = outcome
  /\ UNCHANGED <<address, call, option, result>>

Normalize ==
  /\ call = "none"
  /\ Called("normalize_evm_address", NoneValue, normalize_evm_address(address))

ValidateBase58 ==
  /\ call = "none"
  /\ Called("validate_tron_base58_address", NoneValue, validate_tron_base58_address(address))

ValidateHex ==
  /\ call = "none"
  /\ Called("validate_tron_hex_address", NoneValue, validate_tron_hex_address(address))

EvmToTron ==
  /\ call = "none"
  /\ \E f \in Formats : Called("evm_to_tron", f, evm_to_tron(address, f))

TronToEvm ==
  /\ call = "none"
  /\ \E p \in BOOLEAN : Called("tron_to_evm", Bool(p), tron_to_evm(address, Bool(p)))

GetAddressType ==
  /\ call = "none"
  /\ Called("get_address_type", NoneValue, get_address_type(address))

\* the normalized address, written with a 0x prefix, is normalized again
Renormalize ==
  /\ call = "normalize_evm_address" /\ Returned(result) /\ follow = "none"
  /\ CalledNext("normalize_evm_address", NoneValue,
                normalize_evm_address(Str(<<"0", "x">> \o result.val.s)))

\* the TRON address evm_to_tron returned is converted back
\* (tests/test_converter.py, test_bidirectional_conversion)
ConvertBack ==
  /\ call = "evm_to_tron" /\ Returned(result) /\ follow = "none"
  /\ \E p \in BOOLEAN : CalledNext("tron_to_evm", Bool(p), tron_to_evm(result.val, Bool(p)))

\* the TRON address evm_to_tron returned is validated
\* (tests/test_converter.py, test_evm_to_tron_base58 and test_evm_to_tron_hex)
ValidateConverted ==
  /\ call = "evm_to_tron" /\ Returned(result) /\ follow = "none"
  /\ IF option = FormatHex
       THEN CalledNext("validate_tron_hex_address", NoneValue,
                       validate_tron_hex_address(result.val))
       ELSE CalledNext("validate_tron_base58_address", NoneValue,
                       validate_tron_base58_address(result.val))

\* the caller converts the address it had classified, passing the same text
\* (converter.py, the loop of the demonstration block)
ConvertClassified ==
  /\ call = "get_address_type" /\ Returned(result) /\ follow = "none"
  /\ \/ /\ result.val = TypeEvm
        /\ \E f \in {FormatBase58, FormatHex} :
             CalledNext("evm_to_tron", f, evm_to_tron(address, f))
     \/ /\ result.val \in {TypeTronBase58, TypeTronHex}
        /\ CalledNext("tron_to_evm", Bool(TRUE), tron_to_evm(address, Bool(TRUE)))

Next ==
  \/ Normalize
  \/ ValidateBase58
  \/ ValidateHex
  \/ EvmToTron
  \/ TronToEvm
  \/ GetAddressType
  \/ Renormalize
  \/ ConvertBack
  \/ ValidateConverted
  \/ ConvertClassified

Spec == Init /\ [][Next]_vars

(***************************************************************************)
(* Properties.                                                             *)
(***************************************************************************)
IsLowerHex(s) == \A i \in DOMAIN s : s[i] \in Range(HexLower)

\* a valid EVM address: 40 hexadecimal characters in any letter case, with
\* or without a leading 0x or 0X
IsValidEvm(v) ==
  /\ IsStr(v)
  /\ LET body == IF StartsWith(v.s, <<"0", "x">>) \/ StartsWith(v.s, <<"0", "X">>)
                 THEN DropFirst(v.s, 2) ELSE v.s
     IN  Len(body) = EvmHexLen /\ \A i \in DOMAIN body : IsAsciiHex(body[i])

\* C1: round trip.  For a valid EVM address and either output format,
\* evm_to_tron returns, tron_to_evm returns on what it returned, and the
\* address that comes back equals the original once both are lower-cased
\* and rid of their 0x prefix.
C1_RoundTrip ==
  (call = "evm_to_tron" /\ option \in {FormatBase58, FormatHex} /\ IsValidEvm(address)) =>
    /\ Returned(result)
    /\ (follow = "tron_to_evm") =>
         /\ Returned(back)
         /\ IsStr(back.val)
         /\ Remove0x(Lower(back.val.s)) = Remove0x(Lower(address.s))

\* an upper-case address with a 0X prefix has gone to Base58Check and back
C1_Witness ==
  /\ call = "evm_to_tron" /\ option = FormatBase58 /\ IsValidEvm(address)
  /\ StartsWith(address.s, <<"0", "X">>)
  /\ StartsWith(result.val.s, <<"T">>)
  /\ follow = "tron_to_evm" /\ Returned(back)

\* C9: an output format other than 'base58' and 'hex' makes evm_to_tron
\* raise the invalid-format error, whatever the address argument is.
C9_FormatCheckedFirst ==
  (call = "evm_to_tron" /\ option \notin {FormatBase58, FormatHex}) =>
    result = Raise("ValueError", "output_format must be 'base58' or 'hex'")

\* evm_to_tron was called with an unknown format on an address that is no
\* str, and on one that is blank
C9_Witness ==
  /\ call = "evm_to_tron" /\ option = Str(<<"x", "m", "l">>)
  /\ ~IsStr(address) \/ IsSpace(address.s)
  /\ Raised(result)

Validators == {"validate_tron_base58_address", "validate_tron_hex_address"}
IsBool(v) == v \in {Bool(TRUE), Bool(FALSE)}

\* C6: the two validators and get_address_type never raise: the validators
\* return a boolean and get_address_type returns one of the three type
\* names or None, for every input.
C6_NeverRaise ==
  /\ call \in Validators => Returned(result) /\ IsBool(result.val)
  /\ follow \in Validators => Returned(back) /\ IsBool(back.val)
  /\ call = "get_address_type" =>
       Returned(result) /\ result.val \in {TypeEvm, TypeTronBase58, TypeTronHex, NoneValue}

\* get_address_type returned None on a text whose cleaned form has 40
\* characters and on which normalize_evm_address raises
C6_Witness ==
  /\ call = "get_address_type" /\ IsStr(address)
  /\ Len(Clean(address.s)) = EvmHexLen
  /\ Raised(normalize_evm_address(address))
  /\ result = Return(NoneValue)

\* The classification procedure of the specification, section 4.6, with
\* the text handed to the Base58Check validator left open: first match wins.
ClassifiedAs(v, base58Text) ==
  IF ~IsStr(v) \/ Strip(v.s) = <<>> THEN NoneValue
  ELSE LET n == Clean(v.s)
       IN  IF StartsWith(n, <<"4", "1">>) /\ Len(n) = TronHexLen
              /\ validate_tron_hex_address(Str(n)) = Return(Bool(TRUE))
             THEN TypeTronHex
           ELSE IF validate_tron_base58_address(Str(base58Text)) = Return(Bool(TRUE))
             THEN TypeTronBase58
           ELSE IF Len(n) = EvmHexLen /\ Returned(normalize_evm_address(v))
             THEN TypeEvm
           ELSE NoneValue

\* C5 as stated: get_address_type(s) is the result of the ordered
\* procedure in which the Base58Check validator sees s exactly as the
\* caller passed it, not trimmed.
C5_AsStated ==
  call = "get_address_type" => result = Return(ClassifiedAs(address, address.s))

\* C5 as amended: get_address_type(s) is the result of the ordered
\* procedure in which the Base58Check validator sees s with its surrounding
\* whitespace trimmed.
C5_Classification ==
  call = "get_address_type" => result = Return(ClassifiedAs(address, Strip(address.s)))

\* a Base58Check address written after whitespace was classified tron_base58
C5_Witness ==
  /\ call = "get_address_type" /\ IsStr(address)
  /\ address.s # <<>> /\ address.s[1] \in Whitespace
  /\ result = Return(TypeTronBase58)

\* C2: whenever normalize_evm_address returns, it returns exactly 40
\* lowercase hexadecimal digits; and an input whose cleaned form holds a
\* character outside [0-9a-f], or is not 40 characters long, makes it raise.
C2_NormalizedIsHex ==
  call = "normalize_evm_address" =>
    /\ Returned(result) =>
         IsStr(result.val) /\ Len(result.val.s) = EvmHexLen /\ IsLowerHex(result.val.s)
    /\ (IsStr(address) /\ (~IsLowerHex(Clean(address.s)) \/ Len(Clean(address.s)) # EvmHexLen))
         => Raised(result)

\* C3: normalization is idempotent: when normalize_evm_address(x) returns,
\* normalize_evm_address("0x" + that result) returns the same text.
C3_Idempotent ==
  (call = "normalize_evm_address" /\ Returned(result) /\ follow = "normalize_evm_address") =>
    back = Return(result.val)

\* C4: whenever evm_to_tron(a, 'hex') returns, the result has 42 characters,
\* starts with 41, is 41 followed by normalize_evm_address(a), and
\* validate_tron_hex_address accepts it.
C4_HexResultIsValid ==
  (call = "evm_to_tron" /\ option = FormatHex /\ Returned(result)) =>
    /\ Len(result.val.s) = TronHexLen
    /\ StartsWith(result.val.s, <<"4", "1">>)
    /\ result.val.s = <<"4", "1">> \o normalize_evm_address(address).val.s
    /\ (follow = "validate_tron_hex_address") => back = Return(Bool(TRUE))

\* C7: a text that is not empty or blank, whose cleaned form holds only
\* characters of [0-9a-f] and has a length L other than 40 (L >= 0), makes
\* normalize_evm_address, and evm_to_tron, raise the length error with L
\* and 40.
C7_LengthError ==
  ( /\ \/ call = "normalize_evm_address"
       \/ call = "evm_to_tron" /\ option \in {FormatBase58, FormatHex}
    /\ IsStr(address) /\ address.s # <<>> /\ ~IsSpace(address.s)
    /\ IsLowerHex(Clean(address.s))
    /\ Len(Clean(address.s)) # EvmHexLen )
  => result = RaiseLength(Len(Clean(address.s)), EvmHexLen)

\* C8: whenever tron_to_evm returns, the result is exactly 40 lowercase
\* hexadecimal digits, preceded by 0x if and only if add_prefix is true;
\* and tron_to_evm(t, True) is 0x followed by tron_to_evm(t, False).
C8_EvmResultIsHex ==
  (call = "tron_to_evm" /\ Returned(result)) =>
    LET digits == IF option.b THEN DropFirst(result.val.s, 2) ELSE result.val.s
    IN  /\ option.b => StartsWith(result.val.s, <<"0", "x">>)
        /\ Len(digits) = EvmHexLen
        /\ IsLowerHex(digits)
        /\ tron_to_evm(address, Bool(TRUE)) =
             Return(Str(<<"0", "x">> \o tron_to_evm(address, Bool(FALSE)).val.s))

\* C10: an address get_address_type classifies converts: evm_to_tron
\* returns, in both formats, on a text classified evm, and tron_to_evm
\* returns on a text classified tron_base58 or tron_hex, the text being
\* passed as it is, surrounding whitespace included.
C10_ClassifiedConverts ==
  (call = "get_address_type" /\ follow \in {"evm_to_tron", "tron_to_evm"}) => Returned(back)

====
